---- MODULE Spec2Model ----
(***************************************************************************)
(* Token authentication of api/v3/auth.go: the issuers signAPIToken and    *)
(* signChallengeToken, the request gate (newAuthInterceptors / validate)   *)
(* and the email verification endpoint (VerificationHandler).              *)
(*                                                                         *)
(* Time is counted in hours.  A token is the record of what its three      *)
(* parts carry: the header's algorithm, the key its signature was made     *)
(* with, and the claims "id", "challenge" and "exp".  The claim "orig_iat" *)
(* is read by no validator; the issuers return it beside the token.        *)
(***************************************************************************)
EXTENDS Integers, Sequences, FiniteSets, TLC

VARIABLES now, users, mail, spent, call, stream, reqs, passed, usage

vars == <<now, users, mail, spent, call, stream, reqs, passed, usage>>

\* an open stream, the requests in flight, the token the gate accepted
\* last, and the usage entries and credits of the accounts
aux == <<stream, reqs, passed, usage>>

---------------------------------------------------------------------------
(* Bounds of the model and the signing configuration.                      *)

\* the clock starts here and advances TickHours at a time up to MaxTime
StartTime == 1
TickHours == 24
MaxTime == 49
\* how many verification values the identity store can generate
NumValues == 2
MaxMessages == 2
MaxEmailLen == 4
NumRequests == 2
\* a.jwt.Timeout, in hours
Timeout == 12
\* the lifetime signChallengeToken gives a challenge token, in hours
ChallengeHours == 24

Users == {"a", "b"}
Empty == ""

\* a.jwt.Key and a key that is not the configured one
Key == "key"
OtherKey == "other"
Keys == {Key, OtherKey}

\* a.jwt.SigningAlgo, and the signing methods jwt-go registers
SigningAlgo == "HS512"
HMACAlgs == {"HS256", "HS512"}
Algs == HMACAlgs \cup {"RS256"}

\* verification values are fresh random strings; 0 stands for the empty
\* string (no active value), -1 for a claim that is absent or not a string
Values == 1..NumValues
NoValue == 0
NoClaim == -1

Times == {t \in StartTime..MaxTime : (t - StartTime) % TickHours = 0}

---------------------------------------------------------------------------
(* Claims and tokens.                                                      *)

claimUser == "id"
claimChallenge == "challenge"
claimExpiry == "exp"
claimOrigAt == "orig_iat"

\* the value of the "exp" claim: absent, a number, or a date string
NoExp == [k |-> "none", t |-> 0]
NumExp(t) == [k |-> "num", t |-> t]
StrExp(t) == [k |-> "str", t |-> t]

\* the instant an "exp" claim denotes, as a reader of the claim understands it
Denotes(e) == e.t

Token(alg, key, id, chal, exp) ==
    [alg |-> alg, key |-> key, id |-> id, chal |-> chal, exp |-> exp]

\* jwt.MapClaims of a token
ClaimsOf(t) == [id |-> t.id, chal |-> t.chal, exp |-> t.exp]
NoClaims == [id |-> Empty, chal |-> NoClaim, exp |-> [k |-> "unset", t |-> 0]]

\* the empty token string, and a string that is no three-part token
EmptyToken == Token("", OtherKey, Empty, NoClaim, NoExp)
Garbage == Token("junk", OtherKey, Empty, NoClaim, NoExp)

\* signAPIToken with the user written under a claim other than "id"
signAPITokenOtherClaim(user, t1, t2) ==
    [expire |-> t1 + Timeout,
     token |-> Token(SigningAlgo, Key, Empty, NoClaim, NumExp(t1 + Timeout)),
     origIat |-> t2]

\* signAPIToken; t1 and t2 are its two readings of time.Now()
signAPIToken(user, t1, t2) ==
    [expire |-> t1 + Timeout,
     token |-> Token(SigningAlgo, Key, user, NoClaim, NumExp(t1 + Timeout)),
     origIat |-> t2]

\* signChallengeToken; the expiry is written as time.Time.String()
signChallengeToken(user, challenge, t1, t2) ==
    [token |-> Token(SigningAlgo, Key, user, challenge, StrExp(t1 + ChallengeHours)),
     origIat |-> t2]

ExpClaims ==
    {NoExp, NumExp(0)}
        \cup {NumExp(t + Timeout) : t \in Times}
        \cup {StrExp(t + ChallengeHours) : t \in Times}

\* the well-formed tokens a client can present
Tokens ==
    {Token(alg, key, id, chal, exp) :
        alg \in Algs, key \in Keys, id \in Users \cup {Empty},
        chal \in Values \cup {NoClaim}, exp \in ExpClaims}

TokenStrings == Tokens \cup {EmptyToken, Garbage}

---------------------------------------------------------------------------
(* jwt-go (gopkg.in/dgrijalva/jwt-go.v3) as the two parsers use it.        *)

\* Parser.ParseUnverified: three parts, a JSON header naming a registered alg
ParseUnverified(t) == t.alg \in Algs

\* MapClaims.VerifyExpiresAt(now, false): only a numeric exp is compared
VerifyExpiresAt(claims, t) ==
    IF claims.exp.k = "num"
    THEN claims.exp.t = 0 \/ t <= claims.exp.t
    ELSE TRUE

\* MapClaims.Valid(); the tokens carry no "iat" and no "nbf"
ClaimsValid(claims, t) == VerifyExpiresAt(claims, t)

\* SigningMethod.Verify with a []byte key: an HMAC of the two parts
MethodVerify(t, key) == t.alg \in HMACAlgs /\ t.key = key

\* jwt.Parse with a Keyfunc whose outcome is kf: [err, key]
jwtParse(t, kf, at) ==
    IF ~ParseUnverified(t) THEN [err |-> TRUE, valid |-> FALSE]
    ELSE IF kf.err THEN [err |-> TRUE, valid |-> FALSE]
    ELSE IF ClaimsValid(ClaimsOf(t), at) /\ MethodVerify(t, kf.key)
         THEN [err |-> FALSE, valid |-> TRUE]
         ELSE [err |-> TRUE, valid |-> FALSE]

---------------------------------------------------------------------------
(* The identity store (userManager).                                       *)

NoAccount == [exists |-> FALSE, evt |-> NoValue, enabled |-> FALSE]
NoIdentity == [name |-> Empty, evt |-> NoValue, enabled |-> FALSE]

\* users.FindByUserName
FindByUserName(us, name) ==
    IF name \in Users /\ us[name].exists
    THEN [err |-> FALSE,
          user |-> [name |-> name, evt |-> us[name].evt, enabled |-> us[name].enabled]]
    ELSE [err |-> TRUE, user |-> NoIdentity]

\* users.NewUserAccount
NewUserAccount(us, name) ==
    IF us[name].exists
    THEN [err |-> TRUE, users |-> us]
    ELSE [err |-> FALSE,
          users |-> [us EXCEPT ![name] = [exists |-> TRUE, evt |-> NoValue, enabled |-> FALSE]]]

\* users.GenerateEmailVerificationToken with the random value v
GenerateEmailVerificationToken(us, name, v) ==
    [us EXCEPT ![name].evt = v]

\* users.ValidateEmailVerificationToken: consumes the active value
ValidateEmailVerificationToken(us, name, challenge) ==
    IF name \in Users /\ us[name].exists /\ challenge # NoValue /\ us[name].evt = challenge
    THEN [err |-> FALSE,
          users |-> [us EXCEPT ![name].evt = NoValue, ![name].enabled = TRUE]]
    ELSE [err |-> TRUE, users |-> us]

---------------------------------------------------------------------------
(* Call metadata and the "authorization" value.                            *)

\* the value is a sequence of pieces: an occurrence of "Bearer " or a text
Bearer == [b |-> TRUE, tok |-> EmptyToken]
Text(t) == [b |-> FALSE, tok |-> t]

\* strings.Split(value, "Bearer "): the texts between the occurrences
RECURSIVE SplitBearer(_)
SplitBearer(s) ==
    IF s = <<>> THEN << <<>> >>
    ELSE LET rest == SplitBearer(Tail(s)) IN
         IF Head(s).b
         THEN << <<>> >> \o rest
         ELSE << <<Head(s)>> \o Head(rest) >> \o Tail(rest)

\* the token string a text denotes
TokenString(seg) ==
    IF Len(seg) = 0 THEN EmptyToken
    ELSE IF Len(seg) = 1 THEN seg[1].tok
    ELSE Garbage

NoMetadata == [k |-> "nomd", v |-> <<>>]
NoAuthorization == [k |-> "noauth", v |-> <<>>]
Authorization(v) == [k |-> "hdr", v |-> v]

\* the tokens signAPIToken issues
SessionTokens == {signAPIToken(u, t, t).token : u \in Users, t \in Times}

\* no metadata; no authorization key; "Bearer <t>"; "<t>"; and, for the
\* tokens signAPIToken issues, "<junk>Bearer <t>" and "Bearer <t>Bearer <t2>"
Metadata ==
    {NoMetadata, NoAuthorization}
        \cup {Authorization(<<Bearer, Text(t)>>) : t \in TokenStrings}
        \cup {Authorization(<<Text(t)>>) : t \in Tokens}
        \cup {Authorization(<<Text(Garbage), Bearer, Text(t)>>) : t \in SessionTokens}
        \cup {Authorization(<<Bearer, Text(t), Bearer, Text(t2)>>) :
                  t \in SessionTokens, t2 \in SessionTokens}

\* a context as it arrives: metadata, no claims and no user set
Incoming(md) == [md |-> md, claims |-> NoClaims, user |-> NoIdentity]
NoContext == [none |-> TRUE]

ctxSetClaims(ctx, claims) == [ctx EXCEPT !.claims = claims]
ctxSetUser(ctx, user) == [ctx EXCEPT !.user = user]

---------------------------------------------------------------------------
(* The request gate.                                                       *)

Rejected(msg, lookups) ==
    [code |-> "Unauthenticated", msg |-> msg, ctx |-> NoContext, lookups |-> lookups]

\* validateKeyfunc returning a key other than a.jwt.Key
validateKeyfuncOtherKey(t, at, us) ==
    LET claims == ClaimsOf(t)
        found == FindByUserName(us, claims.id)
    IN  IF ~ClaimsValid(claims, at)
        THEN [err |-> TRUE, msg |-> "invalid claims", key |-> OtherKey,
              user |-> NoIdentity, lookups |-> 0]
        ELSE IF claims.id = Empty
        THEN [err |-> TRUE, msg |-> "invalid user associated with token", key |-> OtherKey,
              user |-> NoIdentity, lookups |-> 0]
        ELSE IF found.err
        THEN [err |-> TRUE, msg |-> "unable to find user associated with token",
              key |-> OtherKey, user |-> NoIdentity, lookups |-> 1]
        ELSE [err |-> FALSE, msg |-> "", key |-> OtherKey, user |-> found.user,
              lookups |-> 1]

\* validateKeyfunc with the error of FindByUserName dropped
validateKeyfuncNoLookupError(t, at, us) ==
    LET claims == ClaimsOf(t)
        found == FindByUserName(us, claims.id)
    IN  IF ~ClaimsValid(claims, at)
        THEN [err |-> TRUE, msg |-> "invalid claims", key |-> Key,
              user |-> NoIdentity, lookups |-> 0]
        ELSE IF claims.id = Empty
        THEN [err |-> TRUE, msg |-> "invalid user associated with token", key |-> Key,
              user |-> NoIdentity, lookups |-> 0]
        ELSE [err |-> FALSE, msg |-> "", key |-> Key, user |-> found.user, lookups |-> 1]

\* the Keyfunc validate hands to jwt.Parse
validateKeyfunc(t, at, us) ==
    LET claims == ClaimsOf(t)
        found == FindByUserName(us, claims.id)
    IN  IF ~ClaimsValid(claims, at)
        THEN [err |-> TRUE, msg |-> "invalid claims", key |-> Key,
              user |-> NoIdentity, lookups |-> 0]
        ELSE IF claims.id = Empty
        THEN [err |-> TRUE, msg |-> "invalid user associated with token", key |-> Key,
              user |-> NoIdentity, lookups |-> 0]
        ELSE IF found.err
        THEN [err |-> TRUE, msg |-> "unable to find user associated with token",
              key |-> Key, user |-> NoIdentity, lookups |-> 1]
        ELSE [err |-> FALSE, msg |-> "", key |-> Key, user |-> found.user, lookups |-> 1]

\* AuthService.validate
validate(ctx, at, us) ==
    IF ctx.md.k = "nomd" THEN Rejected("missing context metadata", 0)
    ELSE IF ctx.md.k = "noauth" THEN Rejected("no key provided", 0)
    ELSE LET splitToken == SplitBearer(ctx.md.v) IN
         IF Len(splitToken) < 2 THEN Rejected("invalid key", 0)
         ELSE LET tokenString == TokenString(splitToken[2])
                  kf == validateKeyfunc(tokenString, at, us)
                  parsed == jwtParse(tokenString, kf, at)
                  lookups == IF ParseUnverified(tokenString) THEN kf.lookups ELSE 0
              IN  IF parsed.err
                  THEN Rejected(IF ~ParseUnverified(tokenString) THEN "invalid key: malformed"
                                ELSE IF kf.err THEN "invalid key: " \o kf.msg
                                ELSE "invalid key: signature is invalid",
                                lookups)
                  ELSE IF ~parsed.valid THEN Rejected("invalid token", lookups)
                  ELSE [code |-> "OK", msg |-> "",
                        ctx |-> ctxSetUser(ctxSetClaims(ctx, ClaimsOf(tokenString)), kf.user),
                        lookups |-> lookups]

\* the exceptions given to newAuthInterceptors, and the methods called
exclude == {"/auth.TemporalAuth/Register"}
Methods == {"/auth.TemporalAuth/Register", "/auth.TemporalAuth/Account"}

Refused(v) ==
    [code |-> v.code, msg |-> v.msg, handled |-> 0,
     hctx |-> NoContext, wrapped |-> FALSE, lookups |-> v.lookups]

\* the handler ran once, with the context hctx
Handled(hctx, wrapped, lookups) ==
    [code |-> "OK", msg |-> "", handled |-> 1,
     hctx |-> hctx, wrapped |-> wrapped, lookups |-> lookups]

\* unaryInterceptor with the exclusion test lost
unaryInterceptorNoExclusion(ctx, method, at, us) ==
    LET v == validate(ctx, at, us) IN
    IF v.code # "OK" THEN Refused(v)
    ELSE Handled(v.ctx, FALSE, v.lookups)

\* unaryInterceptor: validate unless the method is excluded, then call the
\* handler with the context
unaryInterceptor(ctx, method, at, us) ==
    IF method \notin exclude
    THEN LET v == validate(ctx, at, us) IN
         IF v.code # "OK" THEN Refused(v)
         ELSE Handled(v.ctx, FALSE, v.lookups)
    ELSE Handled(ctx, FALSE, 0)

\* streamInterceptor handing the handler the stream it was given, not the
\* wrapped one
streamInterceptorUnwrapped(ctx, method, at, us) ==
    IF method \notin exclude
    THEN LET v == validate(ctx, at, us) IN
         IF v.code # "OK" THEN Refused(v)
         ELSE Handled(ctx, FALSE, v.lookups)
    ELSE Handled(ctx, FALSE, 0)

\* streamInterceptor: validate stream.Context() unless the method is
\* excluded, wrap the stream to carry the new context, then call the handler
streamInterceptor(ctx, method, at, us) ==
    IF method \notin exclude
    THEN LET v == validate(ctx, at, us) IN
         IF v.code # "OK" THEN Refused(v)
         ELSE Handled(v.ctx, TRUE, v.lookups)
    ELSE Handled(ctx, FALSE, 0)

---------------------------------------------------------------------------
(* The verification endpoint.                                              *)

\* r.URL.Query().Get(name): the empty string when the parameter is absent
Get(query, name) ==
    IF name \in DOMAIN query THEN query[name]
    ELSE IF name = "user" THEN Empty ELSE EmptyToken

Answer(code, msg, lookups, us) ==
    [code |-> code, msg |-> msg, lookups |-> lookups, consumes |-> 0, users |-> us]

\* verifyKeyfunc without the comparison with a.jwt.SigningAlgo
verifyKeyfuncAnyHMAC(t) ==
    IF t.alg \notin HMACAlgs
    THEN [err |-> TRUE, msg |-> "unable to validate signing method", key |-> Key]
    ELSE [err |-> FALSE, msg |-> "", key |-> Key]

\* the Keyfunc VerificationHandler hands to jwt.Parse
verifyKeyfunc(t) ==
    IF t.alg \notin HMACAlgs
    THEN [err |-> TRUE, msg |-> "unable to validate signing method", key |-> Key]
    ELSE IF t.alg # SigningAlgo
    THEN [err |-> TRUE, msg |-> "expect hs512 signing method", key |-> Key]
    ELSE [err |-> FALSE, msg |-> "", key |-> Key]

\* VerificationHandler without the comparison of the challenge
VerificationHandlerNoChallengeCheck(query, at, us) ==
    LET user == Get(query, "user")
        tokenStr == Get(query, "token")
        parsed == jwtParse(tokenStr, verifyKeyfunc(tokenStr), at)
        claims == ClaimsOf(tokenStr)
        found == FindByUserName(us, user)
        challenge == claims.chal
        consumed == ValidateEmailVerificationToken(us, user, challenge)
    IN  IF user = Empty \/ tokenStr = EmptyToken
        THEN Answer("BadRequest", "parameters user, token cannot be empty", 0, us)
        ELSE IF parsed.err \/ ~parsed.valid
        THEN Answer("Unauthorized", "invalid token", 0, us)
        ELSE IF claims.id = Empty \/ claims.id # user
        THEN Answer("BadRequest", "user in token does not match request", 0, us)
        ELSE IF ~ClaimsValid(claims, at)
        THEN Answer("BadRequest", "invalid claims", 0, us)
        ELSE IF found.err
        THEN Answer("NotFound", "user not found", 1, us)
        ELSE IF consumed.err
        THEN [code |-> "InternalServer", msg |-> "unable to validate user",
              lookups |-> 1, consumes |-> 1, users |-> consumed.users]
        ELSE [code |-> "OK", msg |-> "user verified",
              lookups |-> 1, consumes |-> 1, users |-> consumed.users]

\* VerificationHandler without the comparison of the token's user
VerificationHandlerNoUserCheck(query, at, us) ==
    LET user == Get(query, "user")
        tokenStr == Get(query, "token")
        parsed == jwtParse(tokenStr, verifyKeyfunc(tokenStr), at)
        claims == ClaimsOf(tokenStr)
        found == FindByUserName(us, user)
        challenge == claims.chal
        consumed == ValidateEmailVerificationToken(us, user, challenge)
    IN  IF user = Empty \/ tokenStr = EmptyToken
        THEN Answer("BadRequest", "parameters user, token cannot be empty", 0, us)
        ELSE IF parsed.err \/ ~parsed.valid
        THEN Answer("Unauthorized", "invalid token", 0, us)
        ELSE IF ~ClaimsValid(claims, at)
        THEN Answer("BadRequest", "invalid claims", 0, us)
        ELSE IF found.err
        THEN Answer("NotFound", "user not found", 1, us)
        ELSE IF challenge = NoClaim \/ challenge # found.user.evt
        THEN Answer("BadRequest", "challenge in token is incorrect", 1, us)
        ELSE IF consumed.err
        THEN [code |-> "InternalServer", msg |-> "unable to validate user",
              lookups |-> 1, consumes |-> 1, users |-> consumed.users]
        ELSE [code |-> "OK", msg |-> "user verified",
              lookups |-> 1, consumes |-> 1, users |-> consumed.users]

\* AuthService.VerificationHandler on a request with the given query
VerificationHandler(query, at, us) ==
    LET user == Get(query, "user")
        tokenStr == Get(query, "token")
        parsed == jwtParse(tokenStr, verifyKeyfunc(tokenStr), at)
        claims == ClaimsOf(tokenStr)
        found == FindByUserName(us, user)
        challenge == claims.chal
        consumed == ValidateEmailVerificationToken(us, user, challenge)
    IN  IF user = Empty \/ tokenStr = EmptyToken
        THEN Answer("BadRequest", "parameters user, token cannot be empty", 0, us)
        ELSE IF parsed.err \/ ~parsed.valid
        THEN Answer("Unauthorized", "invalid token", 0, us)
        ELSE IF claims.id = Empty \/ claims.id # user
        THEN Answer("BadRequest", "user in token does not match request", 0, us)
        ELSE IF ~ClaimsValid(claims, at)
        THEN Answer("BadRequest", "invalid claims", 0, us)
        ELSE IF found.err
        THEN Answer("NotFound", "user not found", 1, us)
        ELSE IF challenge = NoClaim \/ challenge # found.user.evt
        THEN Answer("BadRequest", "challenge in token is incorrect", 1, us)
        ELSE IF consumed.err
        THEN [code |-> "InternalServer", msg |-> "unable to validate user",
              lookups |-> 1, consumes |-> 1, users |-> consumed.users]
        ELSE [code |-> "OK", msg |-> "user verified",
              lookups |-> 1, consumes |-> 1, users |-> consumed.users]

Queries == [user : Users \cup {Empty}, token : TokenStrings]

---------------------------------------------------------------------------
(* The state machine.  call holds the request being answered and its       *)
(* outcome; mail holds, per user, the verification email sent to them;     *)
(* spent holds the verification values a redemption has consumed.          *)

Idle == [op |-> "none"]
NoMail == [sent |-> FALSE]

\* no stream is open; no request is in flight in slot i; the gate has
\* accepted no token yet
NoStream == [open |-> FALSE]
Requests == 1..NumRequests
NoRequest == [pc |-> "none"]
NoToken == [some |-> FALSE]

\* the usage entry and the credits of an account that has not been upgraded;
\* upgrades counts the changes of its tier
NoUsage == [tier |-> "Free", credits |-> 0, upgrades |-> 0]

\* the value the store's random generator yields: never one seen before
FreshValue == 1 + Cardinality({u \in Users : users[u].exists})

Init ==
    /\ now = StartTime
    /\ users = [u \in Users |-> NoAccount]
    /\ mail = [u \in Users |-> NoMail]
    /\ spent = {}
    /\ call = Idle
    /\ stream = NoStream
    /\ reqs = [i \in Requests |-> NoRequest]
    /\ passed = NoToken
    /\ usage = [u \in Users |-> NoUsage]

\* the clock advances
Tick ==
    /\ call = Idle
    /\ now + TickHours <= MaxTime
    /\ now' = now + TickHours
    /\ UNCHANGED <<users, mail, spent, call>>
    /\ UNCHANGED aux

\* the answer has been delivered
Return ==
    /\ call # Idle
    /\ call' = Idle
    /\ UNCHANGED <<now, users, mail, spent>>
    /\ UNCHANGED aux

\* AuthService.Register; valid says whether validateEmailFormat and the
\* emptiness checks pass.  The email publisher and the usage store succeed.
Register ==
    /\ call = Idle
    /\ \E user \in Users, valid \in BOOLEAN :
        LET created == NewUserAccount(users, user)
            v == FreshValue
            generated == GenerateEmailVerificationToken(created.users, user, v)
            signed == signChallengeToken(user, v, now, now)
            url == [user |-> user, challenge |-> signed.token]
        IN  /\ v \in Values
            /\ IF ~valid \/ created.err
               THEN /\ call' = [op |-> "Register", user |-> user, code |-> "InvalidArgument"]
                    /\ UNCHANGED <<users, mail>>
               ELSE /\ users' = generated
                    /\ mail' = [mail EXCEPT ![user] = [sent |-> TRUE, url |-> url, at |-> now]]
                    /\ call' = [op |-> "Register", user |-> user, code |-> "OK"]
    /\ UNCHANGED <<now, spent>>
    /\ UNCHANGED aux

\* AuthService.Login; the clock may advance between signAPIToken's two
\* readings of it
Login ==
    /\ call = Idle
    /\ \E user \in Users, pw \in BOOLEAN, later \in {now, now + TickHours} :
        LET signed == signAPIToken(user, now, later) IN
        /\ later <= MaxTime
        /\ IF ~(users[user].exists /\ pw)
           THEN /\ call' = [op |-> "Login", user |-> user, code |-> "Unauthenticated"]
                /\ now' = now
           ELSE /\ call' = [op |-> "Login", user |-> user, code |-> "OK", at |-> now,
                            expire |-> signed.expire, token |-> signed.token,
                            origIat |-> signed.origIat]
                /\ now' = later
    /\ UNCHANGED <<users, mail, spent>>
    /\ UNCHANGED aux

\* a unary call through unaryInterceptor
UnaryCall ==
    /\ call = Idle
    /\ \E method \in Methods, md \in Metadata :
        LET r == unaryInterceptor(Incoming(md), method, now, users) IN
        call' = [op |-> "Unary", method |-> method, md |-> md, code |-> r.code,
                 msg |-> r.msg, handled |-> r.handled, hctx |-> r.hctx,
                 wrapped |-> r.wrapped, lookups |-> r.lookups]
    /\ UNCHANGED <<now, users, mail, spent>>
    /\ UNCHANGED aux

\* the establishment of a stream through streamInterceptor
StreamCall ==
    /\ call = Idle
    /\ \E method \in Methods, md \in Metadata :
        LET r == streamInterceptor(Incoming(md), method, now, users) IN
        call' = [op |-> "Stream", method |-> method, md |-> md, code |-> r.code,
                 msg |-> r.msg, handled |-> r.handled, hctx |-> r.hctx,
                 wrapped |-> r.wrapped, lookups |-> r.lookups]
    /\ UNCHANGED <<now, users, mail, spent>>
    /\ UNCHANGED aux

\* a request to the verification endpoint
Verify ==
    /\ call = Idle
    /\ \E query \in Queries :
        LET r == VerificationHandler(query, now, users) IN
        /\ call' = [op |-> "Verify", user |-> query.user, token |-> query.token,
                    code |-> r.code, msg |-> r.msg, lookups |-> r.lookups,
                    consumes |-> r.consumes, before |-> users]
        /\ users' = r.users
        /\ spent' = IF r.code = "OK" THEN spent \cup {query.token.chal} ELSE spent
    /\ UNCHANGED <<now, mail>>
    /\ UNCHANGED aux

\* a user follows the link of the mail Register sent them: a request to the
\* verification endpoint with exactly the query of that link
FollowLink ==
    /\ call = Idle
    /\ \E u \in Users :
        LET query == mail[u].url
            r == VerificationHandler(query, now, users)
        IN  /\ mail[u].sent
            /\ call' = [op |-> "FollowLink", link |-> u, user |-> Get(query, "user"),
                        token |-> Get(query, "token"), code |-> r.code, msg |-> r.msg,
                        lookups |-> r.lookups, consumes |-> r.consumes,
                        before |-> users]
            /\ users' = r.users
            /\ spent' = IF r.code = "OK" THEN spent \cup {Get(query, "token").chal}
                        ELSE spent
    /\ UNCHANGED <<now, mail>>
    /\ UNCHANGED aux

Next ==
    \/ Tick
    \/ Return
    \/ Register
    \/ Login
    \/ UnaryCall
    \/ StreamCall
    \/ Verify
    \/ FollowLink

Spec == Init /\ [][Next]_vars

---------------------------------------------------------------------------
(* The life of a stream: established through streamInterceptor, then the   *)
(* handler serves messages, reading the identity from stream.Context(),    *)
(* while registrations and redemptions change the store.                   *)

StreamMetadata ==
    {NoMetadata} \cup {Authorization(<<Bearer, Text(t)>>) : t \in SessionTokens}

\* the establishment of a stream; resolved records the store's entry for the
\* token's user at this moment
StreamOpen ==
    /\ call = Idle
    /\ stream = NoStream
    /\ \E method \in Methods, md \in StreamMetadata :
        LET r == streamInterceptor(Incoming(md), method, now, users)
            id == IF md.k = "hdr" THEN ClaimsOf(md.v[2].tok).id ELSE Empty
        IN  /\ call' = [op |-> "Stream", method |-> method, md |-> md, code |-> r.code,
                        msg |-> r.msg, handled |-> r.handled, hctx |-> r.hctx,
                        wrapped |-> r.wrapped, lookups |-> r.lookups]
            /\ stream' = IF r.handled = 1
                         THEN [open |-> TRUE, method |-> method, ctx |-> r.hctx,
                               resolved |-> FindByUserName(users, id).user,
                               lookups |-> r.lookups, msgs |-> 0, seen |-> NoIdentity]
                         ELSE NoStream
    /\ UNCHANGED <<now, users, mail, spent, reqs, passed, usage>>

\* the handler serves one message: it reads the identity from the context
\* of the stream it was handed; the interceptor does not run again
StreamMessage ==
    /\ stream # NoStream
    /\ stream.msgs < MaxMessages
    /\ stream' = [stream EXCEPT !.msgs = @ + 1, !.seen = stream.ctx.user]
    /\ UNCHANGED <<now, users, mail, spent, call, reqs, passed, usage>>

\* the handler returns
StreamClose ==
    /\ stream # NoStream
    /\ stream' = NoStream
    /\ UNCHANGED <<now, users, mail, spent, call, reqs, passed, usage>>

\* a request to the verification endpoint with the user and the token of a
\* mail Register sent
Redeem ==
    /\ call = Idle
    /\ \E u \in Users :
        LET query == [user |-> u, token |-> mail[u].url.challenge]
            r == VerificationHandler(query, now, users)
        IN  /\ mail[u].sent
            /\ call' = [op |-> "Verify", user |-> query.user, token |-> query.token,
                        code |-> r.code, msg |-> r.msg, lookups |-> r.lookups,
                        consumes |-> r.consumes, before |-> users]
            /\ users' = r.users
            /\ spent' = IF r.code = "OK" THEN spent \cup {query.token.chal} ELSE spent
    /\ UNCHANGED <<now, mail>>
    /\ UNCHANGED aux

NextStream ==
    \/ Tick
    \/ Return
    \/ Register
    \/ Redeem
    \/ StreamOpen
    \/ StreamMessage
    \/ StreamClose

SpecStream == Init /\ [][NextStream]_vars

---------------------------------------------------------------------------
(* Requests to the verification endpoint served concurrently.  Each store  *)
(* operation is atomic; the handler's lookup and its consumption of the    *)
(* value are two operations, and other requests run between them.          *)

\* request i runs VerificationHandler up to the comparison of the
\* challenge with the record FindByUserName returned
RedeemLookup(i) ==
    /\ reqs[i].pc = "none"
    /\ \E u \in Users :
        LET query == [user |-> u, token |-> mail[u].url.challenge]
            r == VerificationHandler(query, now, users)
        IN  /\ mail[u].sent
            /\ reqs' = [reqs EXCEPT ![i] =
                    IF r.consumes = 1
                    THEN [pc |-> "consume", user |-> u, token |-> query.token,
                          code |-> "", msg |-> ""]
                    ELSE [pc |-> "done", user |-> u, token |-> query.token,
                          code |-> r.code, msg |-> r.msg]]
    /\ UNCHANGED <<now, users, mail, spent, call, stream, passed, usage>>

\* request i calls ValidateEmailVerificationToken and answers
RedeemConsume(i) ==
    /\ reqs[i].pc = "consume"
    /\ LET consumed == ValidateEmailVerificationToken(users, reqs[i].user,
                                                       reqs[i].token.chal)
       IN  /\ users' = consumed.users
           /\ reqs' = [reqs EXCEPT ![i] =
                   IF consumed.err
                   THEN [@ EXCEPT !.pc = "done", !.code = "InternalServer",
                                  !.msg = "unable to validate user"]
                   ELSE [@ EXCEPT !.pc = "done", !.code = "OK",
                                  !.msg = "user verified"]]
           /\ spent' = IF consumed.err THEN spent
                       ELSE spent \cup {reqs[i].token.chal}
    /\ UNCHANGED <<now, mail, call, stream, passed, usage>>

\* the answer to request i has been delivered
RedeemReturn(i) ==
    /\ reqs[i].pc = "done"
    /\ reqs' = [reqs EXCEPT ![i] = NoRequest]
    /\ UNCHANGED <<now, users, mail, spent, call, stream, passed, usage>>

NextRace ==
    \/ Tick
    \/ Return
    \/ Register
    \/ \E i \in Requests : RedeemLookup(i)
    \/ \E i \in Requests : RedeemConsume(i)
    \/ \E i \in Requests : RedeemReturn(i)

SpecRace == Init /\ [][NextRace]_vars

---------------------------------------------------------------------------
(* The gate against a store that changes between calls: users are removed  *)
(* and their records change, and callers present again the tokens that     *)
(* were accepted before.  passed holds the token accepted last and the     *)
(* identity resolved for it.                                               *)

Accepted(tok, user) == [some |-> TRUE, tok |-> tok, user |-> user]

\* the store drops a user
RemoveUser ==
    /\ call = Idle
    /\ \E u \in Users :
        /\ users[u].exists
        /\ users' = [users EXCEPT ![u] = NoAccount]
    /\ UNCHANGED <<now, mail, spent, call>>
    /\ UNCHANGED aux

\* a gate that answers from the token and identity it accepted last
SessionCallCached ==
    /\ call = Idle
    /\ \E method \in Methods, md \in StreamMetadata :
        LET tok == IF md.k = "hdr" THEN md.v[2].tok ELSE EmptyToken
            hit == /\ method \notin exclude
                   /\ passed.some
                   /\ passed.tok = tok
                   /\ ClaimsValid(ClaimsOf(tok), now)
            r == IF hit
                 THEN Handled(ctxSetUser(ctxSetClaims(Incoming(md), ClaimsOf(tok)),
                                         passed.user), FALSE, 0)
                 ELSE unaryInterceptor(Incoming(md), method, now, users)
        IN  /\ call' = [op |-> "Unary", method |-> method, md |-> md, code |-> r.code,
                        msg |-> r.msg, handled |-> r.handled, hctx |-> r.hctx,
                        wrapped |-> r.wrapped, lookups |-> r.lookups]
            /\ passed' = IF r.handled = 1 /\ method \notin exclude
                         THEN Accepted(tok, r.hctx.user)
                         ELSE passed
    /\ UNCHANGED <<now, users, mail, spent, stream, reqs, usage>>

\* a unary call through unaryInterceptor with one of the tokens
\* signAPIToken issues
SessionCall ==
    /\ call = Idle
    /\ \E method \in Methods, md \in StreamMetadata :
        LET tok == IF md.k = "hdr" THEN md.v[2].tok ELSE EmptyToken
            r == unaryInterceptor(Incoming(md), method, now, users)
        IN  /\ call' = [op |-> "Unary", method |-> method, md |-> md, code |-> r.code,
                        msg |-> r.msg, handled |-> r.handled, hctx |-> r.hctx,
                        wrapped |-> r.wrapped, lookups |-> r.lookups]
            /\ passed' = IF r.handled = 1 /\ method \notin exclude
                         THEN Accepted(tok, r.hctx.user)
                         ELSE passed
    /\ UNCHANGED <<now, users, mail, spent, stream, reqs, usage>>

NextStore ==
    \/ Tick
    \/ Return
    \/ Register
    \/ Redeem
    \/ RemoveUser
    \/ SessionCall

SpecStore == Init /\ [][NextStore]_vars

---------------------------------------------------------------------------
(* AuthService.Update served concurrently.  Each operation of the usage    *)
(* store and of the credit ledger is atomic and succeeds; other requests   *)
(* run between the operations of one request.                              *)

\* the credit granted with the upgrade, in thousandths
FreeCredits == 115
Variants == {"password", "tier", "other"}

\* usage.FindByUserName
UsageFindByUserName(us, usg, name) ==
    IF name \in Users /\ us[name].exists
    THEN [err |-> FALSE, tier |-> usg[name].tier]
    ELSE [err |-> TRUE, tier |-> "Free"]

\* usage.UpdateTier
UsageUpdateTier(usg, name, tier) ==
    [usg EXCEPT ![name].tier = tier,
                ![name].upgrades = IF usg[name].tier = tier THEN @ ELSE @ + 1]

\* credits.AddCredits
AddCredits(usg, name, amount) ==
    [usg EXCEPT ![name].credits = @ + amount]

Finished(user, variant, code, msg) ==
    [pc |-> "done", user |-> user, variant |-> variant, code |-> code, msg |-> msg]

\* request i enters Update; authed says whether the context carries the
\* user the gate resolved, ok whether ChangePassword accepts the old
\* password.  A tier change goes as far as its reading of the usage entry.
UpdateFind(i) ==
    /\ reqs[i].pc = "none"
    /\ \E u \in Users, authed \in BOOLEAN, variant \in Variants, ok \in BOOLEAN :
        LET found == UsageFindByUserName(users, usage, u) IN
        /\ authed => users[u].exists
        /\ reqs' = [reqs EXCEPT ![i] =
                IF ~authed
                THEN Finished(u, variant, "NotFound",
                              "could not find user associated with token")
                ELSE IF variant = "password"
                THEN IF ok THEN Finished(u, variant, "OK", "")
                     ELSE Finished(u, variant, "PermissionDenied", "invalid password")
                ELSE IF variant = "other"
                THEN Finished(u, variant, "InvalidArgument", "type is not supported")
                ELSE IF found.err
                THEN Finished(u, variant, "Internal", "unable to find usage data for user")
                ELSE IF found.tier # "Free"
                THEN Finished(u, variant, "AlreadyExists", "account is already upgraded")
                ELSE [pc |-> "tier", user |-> u, variant |-> variant,
                      code |-> "", msg |-> ""]]
    /\ UNCHANGED <<now, users, mail, spent, call, stream, passed, usage>>

\* request i calls usage.UpdateTier
UpdateUpgrade(i) ==
    /\ reqs[i].pc = "tier"
    /\ usage' = UsageUpdateTier(usage, reqs[i].user, "Light")
    /\ reqs' = [reqs EXCEPT ![i].pc = "credits"]
    /\ UNCHANGED <<now, users, mail, spent, call, stream, passed>>

\* request i calls credits.AddCredits, publishes the mail and answers
UpdateGrant(i) ==
    /\ reqs[i].pc = "credits"
    /\ usage' = AddCredits(usage, reqs[i].user, FreeCredits)
    /\ reqs' = [reqs EXCEPT ![i] = Finished(reqs[i].user, reqs[i].variant, "OK", "")]
    /\ UNCHANGED <<now, users, mail, spent, call, stream, passed>>

\* the answer to request i has been delivered
UpdateReturn(i) ==
    /\ reqs[i].pc = "done"
    /\ reqs' = [reqs EXCEPT ![i] = NoRequest]
    /\ UNCHANGED <<now, users, mail, spent, call, stream, passed, usage>>

NextUpdate ==
    \/ Return
    \/ Register
    \/ \E i \in Requests : UpdateFind(i)
    \/ \E i \in Requests : UpdateUpgrade(i)
    \/ \E i \in Requests : UpdateGrant(i)
    \/ \E i \in Requests : UpdateReturn(i)

SpecUpdate == Init /\ [][NextUpdate]_vars

---------------------------------------------------------------------------
(* validateEmailFormat, on addresses over a small alphabet.                *)

Chars == {"a", "@", "+", "."}
RECURSIVE Strings(_)
Strings(n) ==
    IF n = 0 THEN {<<>>}
    ELSE Strings(n - 1) \cup {Append(e, c) : e \in Strings(n - 1), c \in Chars}
Emails == Strings(MaxEmailLen)

\* strings.ContainsRune
ContainsRune(e, c) == \E i \in 1..Len(e) : e[i] = c

\* strings.Split(e, c): the texts between the occurrences of c
RECURSIVE Split(_, _)
Split(e, c) ==
    IF e = <<>> THEN << <<>> >>
    ELSE LET rest == Split(Tail(e), c) IN
         IF Head(e) = c
         THEN << <<>> >> \o rest
         ELSE << <<Head(e)>> \o Head(rest) >> \o Tail(rest)

\* strings.HasSuffix(e, c) for a suffix of one character
HasSuffix(e, c) == Len(e) > 0 /\ e[Len(e)] = c

\* net.LookupIP: resolves says whether the resolver knows the host; the
\* empty host is never known
LookupIP(host, resolves) == host # <<>> /\ resolves

Invalid(msg, lookups) == [err |-> msg, lookups |-> lookups]

validateEmailFormat(email, resolves) ==
    IF ~ContainsRune(email, "@") THEN Invalid("invalid email format", 0)
    ELSE LET parts == Split(email, "@")
             account == parts[1]
             host == parts[2]
         IN  IF ContainsRune(account, "+")
             THEN Invalid("email must not contain '+'", 0)
             ELSE IF HasSuffix(account, ".")
             THEN Invalid("email must not end with '.'", 0)
             ELSE IF ~LookupIP(host, resolves)
             THEN Invalid("invalid email host", 1)
             ELSE [err |-> "", lookups |-> 1]

\* one address is validated
ValidateEmail ==
    /\ call = Idle
    /\ \E email \in Emails, resolves \in BOOLEAN :
        LET r == validateEmailFormat(email, resolves) IN
        call' = [op |-> "validateEmailFormat", email |-> email,
                 resolves |-> resolves, err |-> r.err, lookups |-> r.lookups]
    /\ UNCHANGED <<now, users, mail, spent>>
    /\ UNCHANGED aux

NextEmail ==
    \/ ValidateEmail
    \/ Return

SpecEmail == Init /\ [][NextEmail]_vars

---------------------------------------------------------------------------
(* What the claims speak of.                                               *)

GateCall == call.op \in {"Unary", "Stream"}
Protected == GateCall /\ call.method \notin exclude
Exempt == GateCall /\ call.method \in exclude

\* the authorization value is exactly "Bearer " followed by one token string
ExactBearerForm(md) ==
    md.k = "hdr" /\ Len(md.v) = 2 /\ md.v[1] = Bearer /\ ~md.v[2].b

\* the authorization value holds "Bearer " with a token string after its
\* first occurrence: the bearer credential the call carries
FirstBearer(md) ==
    CHOOSE i \in 1..Len(md.v) : md.v[i].b /\ \A j \in 1..(i - 1) : ~md.v[j].b
BearerForm(md) ==
    /\ md.k = "hdr"
    /\ \E i \in 1..Len(md.v) : md.v[i].b
    /\ FirstBearer(md) < Len(md.v)
    /\ ~md.v[FirstBearer(md) + 1].b
Credential(md) == md.v[FirstBearer(md) + 1].tok

\* the signature of t was made with the configured key by an HMAC method
SignedWithKey(t) == t.alg \in HMACAlgs /\ t.key = Key

\* t passes the gate's checks at time at against the store us: signature,
\* expiry as jwt-go compares it, a non-empty identity the store finds
PassesGate(t, at, us) ==
    /\ t \in Tokens
    /\ SignedWithKey(t)
    /\ (t.exp.k = "num" => (t.exp.t = 0 \/ at <= t.exp.t))
    /\ t.id # Empty
    /\ t.id \in Users
    /\ us[t.id].exists

Authenticates(md, at, us) ==
    BearerForm(md) /\ PassesGate(Credential(md), at, us)

(* C1: a call to a method that is not excluded reaches its handler only if *)
(* it carries a bearer token that passes validation and names a user the   *)
(* store finds; every other such call is answered Unauthenticated, never   *)
(* NotFound, and its handler runs zero times.                              *)
C1_GateRejectsUnauthenticated ==
    Protected =>
        /\ call.handled = 1 => Authenticates(call.md, now, users)
        /\ ~Authenticates(call.md, now, users) =>
              call.code = "Unauthenticated" /\ call.handled = 0
        /\ call.code # "NotFound"

\* a validly signed, unexpired token of a user the store does not hold
C1_Witness ==
    /\ Protected
    /\ BearerForm(call.md)
    /\ Credential(call.md).alg = SigningAlgo
    /\ Credential(call.md).key = Key
    /\ Credential(call.md).exp.k = "num" /\ Credential(call.md).exp.t >= now
    /\ Credential(call.md).id \in Users
    /\ ~users[Credential(call.md).id].exists
    /\ \E u \in Users : users[u].exists
    /\ call.code = "Unauthenticated"
    /\ call.handled = 0

(* C2: a call to an excluded method is handed to its handler with the      *)
(* context it arrived with: no claims and no identity set, the stream not  *)
(* wrapped, the identity store not consulted, whatever credential it       *)
(* carries.                                                                *)
C2_ExemptForwardedUnmodified ==
    Exempt =>
        /\ call.code = "OK"
        /\ call.handled = 1
        /\ call.hctx = Incoming(call.md)
        /\ call.hctx.user = NoIdentity
        /\ call.hctx.claims = NoClaims
        /\ ~call.wrapped
        /\ call.lookups = 0

\* an excluded call carrying a credential that would pass the gate
C2_Witness ==
    /\ Exempt
    /\ Authenticates(call.md, now, users)
    /\ call.handled = 1
    /\ call.hctx.user = NoIdentity

(* C3: at the gate a bearer token whose header algorithm is not the        *)
(* configured one is rejected and the handler is not invoked, also when    *)
(* the token is unexpired, names an existing user and is signed with the   *)
(* configured key under that other algorithm.                              *)
C3_GateRejectsOtherAlgorithm ==
    (Protected /\ BearerForm(call.md) /\ Credential(call.md).alg # SigningAlgo) =>
        call.code = "Unauthenticated" /\ call.handled = 0

\* the token Register mailed to user u, and when
Mailed(u) == mail[u].url.challenge
Redeeming(u) ==
    call.op = "Verify" /\ mail[u].sent /\ call.user = u /\ call.token = Mailed(u)

(* C4: a challenge token is single-use.  A redemption with the user and    *)
(* the token Register mailed succeeds while the value has not been         *)
(* redeemed and consumes it; every later redemption with the same pair is  *)
(* answered BadRequest and changes nothing; no redemption with any token   *)
(* succeeds for a value that has been redeemed before.                     *)
C4_ChallengeSingleUse ==
    [][(call.op = "none" /\ call'.op = "Verify") =>
          /\ call'.code = "OK" => call'.token.chal \notin spent
          /\ \A u \in Users :
                (mail[u].sent /\ call'.user = u /\ call'.token = Mailed(u)) =>
                    IF Mailed(u).chal \in spent
                    THEN /\ call'.code = "BadRequest"
                         /\ call'.msg = "challenge in token is incorrect"
                         /\ users' = users
                    ELSE /\ call'.code = "OK"
                         /\ users'[u].evt # Mailed(u).chal
                         /\ Mailed(u).chal \in spent']_vars

\* a second redemption with the mailed pair, after the first has succeeded
C4_Witness ==
    \E u \in Users :
        /\ Redeeming(u)
        /\ Mailed(u).chal \in spent
        /\ users[u].enabled
        /\ call.code = "BadRequest"

(* C5: a challenge token signed at T carries the expiry T + 24 hours and   *)
(* validation enforces it: a redemption presenting it later than that is   *)
(* rejected and does not consume the user's verification value.            *)
C5_ChallengeExpiryEnforced ==
    \A u \in Users :
        mail[u].sent =>
            /\ Denotes(Mailed(u).exp) = mail[u].at + ChallengeHours
            /\ (Redeeming(u) /\ now > mail[u].at + ChallengeHours) =>
                  /\ call.code # "OK"
                  /\ call.consumes = 0
                  /\ users = call.before

(* C6: round trip.  The token signAPIToken returns for a user of the store *)
(* passes validate while it has not expired, and the claims and the user   *)
(* attached to the context name that user.                                 *)
C6_SessionTokenRoundTrip ==
    \A u \in Users, t \in Times :
        LET signed == signAPIToken(u, t, t) IN
        (/\ Protected
         /\ BearerForm(call.md)
         /\ Credential(call.md) = signed.token
         /\ t <= now
         /\ now <= signed.expire
         /\ users[u].exists) =>
            /\ call.code = "OK"
            /\ call.handled = 1
            /\ call.hctx.claims = ClaimsOf(signed.token)
            /\ call.hctx.claims.id = u
            /\ call.hctx.user.name = u

\* a call carrying the token signAPIToken returns now for a user of the store
C6_Witness ==
    \E u \in Users :
        /\ Protected
        /\ BearerForm(call.md)
        /\ Credential(call.md) = signAPIToken(u, now, now).token
        /\ users[u].exists
        /\ call.handled = 1
        /\ call.hctx.user.name = u

(* C7: a token whose exp claim denotes a time in the past fails            *)
(* validation; so does every token the issuers sign, session token or      *)
(* challenge token, once its expiry has passed, at the gate and at the     *)
(* verification endpoint.                                                  *)
C7_ExpiredTokensFail ==
    /\ \A u \in Users, t \in Times :
          LET tok == signAPIToken(u, t, t).token IN
          (t <= now /\ Denotes(tok.exp) < now) =>
              /\ (Protected /\ BearerForm(call.md) /\ Credential(call.md) = tok) =>
                    call.handled = 0
              /\ (call.op = "Verify" /\ call.token = tok) => call.code # "OK"
    /\ \A u \in Users :
          (mail[u].sent /\ Denotes(Mailed(u).exp) < now) =>
              /\ (Protected /\ BearerForm(call.md) /\ Credential(call.md) = Mailed(u)) =>
                    call.handled = 0
              /\ (call.op = "Verify" /\ call.token = Mailed(u)) => call.code # "OK"

(* C8: a token signed with a key other than the configured one fails at    *)
(* the gate with Unauthenticated, whatever its claims, and the handler is  *)
(* not invoked.                                                            *)
C8_OtherKeyRejected ==
    (/\ Protected
     /\ BearerForm(call.md)
     /\ Credential(call.md) \in Tokens
     /\ Credential(call.md).key # Key) =>
        call.code = "Unauthenticated" /\ call.handled = 0

\* a token of an existing user, unexpired, in the configured algorithm,
\* signed with another key
C8_Witness ==
    /\ Protected
    /\ BearerForm(call.md)
    /\ Credential(call.md).alg = SigningAlgo
    /\ Credential(call.md).key = OtherKey
    /\ Credential(call.md).exp.k = "num" /\ Credential(call.md).exp.t >= now
    /\ Credential(call.md).id \in Users
    /\ users[Credential(call.md).id].exists
    /\ call.code = "Unauthenticated"
    /\ call.handled = 0

(* C9: at the verification endpoint a token whose header algorithm is not  *)
(* the configured one is answered Unauthorized, also when it is signed     *)
(* with the configured key, and the user's verification value is neither   *)
(* looked up nor consumed.                                                 *)
C9_VerifyRejectsOtherAlgorithm ==
    (/\ call.op = "Verify"
     /\ call.user # Empty
     /\ call.token \in Tokens
     /\ call.token.alg # SigningAlgo) =>
        /\ call.code = "Unauthorized"
        /\ call.lookups = 0
        /\ call.consumes = 0
        /\ users = call.before

\* an HMAC token of another algorithm, signed with the configured key, that
\* names the user and the user's active value
C9_Witness ==
    /\ call.op = "Verify"
    /\ call.user \in Users
    /\ call.token.alg \in HMACAlgs \ {SigningAlgo}
    /\ call.token.key = Key
    /\ call.token.id = call.user
    /\ call.before[call.user].exists
    /\ call.token.chal = call.before[call.user].evt
    /\ call.token.chal \in Values
    /\ call.code = "Unauthorized"
    /\ users = call.before

(* C10: a redemption that presents an unexpired challenge token signed for *)
(* user A with a user parameter other than A is answered BadRequest before *)
(* the identity store is touched: no lookup, no consumption, the store     *)
(* unchanged.                                                              *)
C10_OtherUserRejectedBeforeStore ==
    \A a \in Users, v \in Values, t \in Times :
        (/\ call.op = "Verify"
         /\ call.token = signChallengeToken(a, v, t, t).token
         /\ t <= now
         /\ now <= t + ChallengeHours
         /\ call.user # a) =>
            /\ call.code = "BadRequest"
            /\ call.lookups = 0
            /\ call.consumes = 0
            /\ users = call.before

\* A's mailed token, its value still active, presented for another user
\* who has an active value too
C10_Witness ==
    \E a \in Users, b \in Users :
        /\ a # b
        /\ call.op = "Verify"
        /\ mail[a].sent
        /\ call.token = Mailed(a)
        /\ call.user = b
        /\ now <= mail[a].at + ChallengeHours
        /\ users[a].evt = Mailed(a).chal
        /\ users[b].exists
        /\ users[b].evt \in Values
        /\ call.code = "BadRequest"

(* C11: for a stream that passed the gate, the identity the handler sees   *)
(* at every message is the one resolved when the stream was established,   *)
(* whatever has happened to the store since, and the identity store was    *)
(* consulted exactly once for the stream.                                  *)
C11_StreamIdentityFixed ==
    (stream.open /\ stream.method \notin exclude) =>
        /\ stream.lookups = 1
        /\ stream.resolved # NoIdentity
        /\ stream.msgs > 0 => stream.seen = stream.resolved

\* a second message is served after the store's record of the user changed
C11_Witness ==
    /\ stream.open
    /\ stream.method \notin exclude
    /\ stream.msgs = 2
    /\ stream.seen = stream.resolved
    /\ FindByUserName(users, stream.seen.name).user # stream.seen

\* the number of occurrences of c in e
Count(e, c) == Cardinality({i \in 1..Len(e) : e[i] = c})

\* the part of an address with one '@' that precedes it
LocalPart(e) == SubSeq(e, 1, (CHOOSE i \in 1..Len(e) : e[i] = "@") - 1)
DomainPart(e) == SubSeq(e, (CHOOSE i \in 1..Len(e) : e[i] = "@") + 1, Len(e))

(* C12: validateEmailFormat reports the first rule an address breaks: not  *)
(* exactly one '@'; else a '+' in the local part; else a local part ending *)
(* in '.'; else a domain that does not resolve; else it succeeds.  An      *)
(* address rejected by one of the first three rules causes no DNS lookup.  *)
C12_EmailRulesInOrder ==
    call.op = "validateEmailFormat" =>
        LET e == call.email IN
        IF Count(e, "@") # 1
        THEN call.err = "invalid email format" /\ call.lookups = 0
        ELSE IF ContainsRune(LocalPart(e), "+")
        THEN call.err = "email must not contain '+'" /\ call.lookups = 0
        ELSE IF HasSuffix(LocalPart(e), ".")
        THEN call.err = "email must not end with '.'" /\ call.lookups = 0
        ELSE IF ~LookupIP(DomainPart(e), call.resolves)
        THEN call.err = "invalid email host"
        ELSE call.err = ""

(* C13: all rejections by the gate look alike.  Any two rejected calls to  *)
(* methods that are not excluded get the same answer, error kind and       *)
(* message alike, whichever check failed; a call without metadata is       *)
(* always rejected, so every rejection must carry the answer that call     *)
(* gets.                                                                   *)
C13_RejectionsIndistinguishable ==
    (Protected /\ call.handled = 0) =>
        LET plain == validate(Incoming(NoMetadata), now, users) IN
        /\ plain.code = "Unauthenticated"
        /\ call.code = plain.code
        /\ call.msg = plain.msg

(* C14: every token signAPIToken issues has exp = orig_iat + timeout, in   *)
(* seconds, and the expiry returned to the caller is the exp claim,        *)
(* however the clock advances while the token is being issued.             *)
C14_ExpiryFromOneReading ==
    (call.op = "Login" /\ call.code = "OK") =>
        /\ ClaimsOf(call.token).exp = NumExp(call.origIat + Timeout)
        /\ ClaimsOf(call.token).exp = NumExp(call.expire)

(* C15: on a call to a method that is not excluded, an authorization value *)
(* that is not exactly "Bearer " followed by a token is rejected with      *)
(* Unauthenticated, the handler is not invoked and the identity store is   *)
(* not consulted.                                                          *)
C15_OnlyExactBearerForm ==
    (Protected /\ call.md.k = "hdr" /\ ~ExactBearerForm(call.md)) =>
        /\ call.code = "Unauthenticated"
        /\ call.handled = 0
        /\ call.lookups = 0

(* C16: the gate consults the identity store only for a token whose        *)
(* signature has been verified; a token whose signature does not verify    *)
(* causes no lookup.                                                       *)
C16_LookupAfterSignature ==
    (Protected /\ call.lookups > 0) =>
        BearerForm(call.md) /\ SignedWithKey(Credential(call.md))

(* C17: of the redemptions of one mailed user and token that are served   *)
(* concurrently, at most one succeeds and every other one fails the        *)
(* comparison of the challenge with a malformed-request answer; none ends  *)
(* in an internal error.                                                   *)
C17_ConcurrentRedemption ==
    \A i \in Requests :
        reqs[i].pc = "done" =>
            /\ reqs[i].code \in {"OK", "BadRequest"}
            /\ reqs[i].code = "BadRequest" =>
                  reqs[i].msg = "challenge in token is incorrect"
            /\ \A j \in Requests \ {i} :
                  (reqs[j].pc = "done" /\ reqs[j].token = reqs[i].token) =>
                      ~(reqs[i].code = "OK" /\ reqs[j].code = "OK")

(* C18: the link Register mails carries the user and the challenge token  *)
(* under the parameter names the verification endpoint reads, so a request *)
(* for exactly that link, made while the value is active and the token has *)
(* not expired, is answered with success.                                  *)
C18_MailedLinkRedeems ==
    (/\ call.op = "FollowLink"
     /\ call.before[call.link].evt = Mailed(call.link).chal
     /\ now <= Denotes(Mailed(call.link).exp)) =>
        /\ call.user = call.link
        /\ call.token = Mailed(call.link)
        /\ call.code = "OK"

(* C19: the gate keeps nothing between calls.  A call to a method that is *)
(* not excluded is answered from the store as it is when the call is made: *)
(* it is rejected with Unauthenticated when the store does not hold the    *)
(* token's user, also when the same token was accepted before and has not  *)
(* expired, and an accepted call gets the store's present record of the    *)
(* user, found by one lookup.                                              *)
C19_GateKeepsNoState ==
    (Protected /\ BearerForm(call.md)) =>
        LET found == FindByUserName(users, ClaimsOf(Credential(call.md)).id) IN
        /\ found.err => call.code = "Unauthenticated" /\ call.handled = 0
        /\ call.handled = 1 => call.hctx.user = found.user /\ call.lookups = 1

\* a token that was accepted and has not expired is rejected after its user
\* was removed
C19_Witness ==
    /\ Protected
    /\ BearerForm(call.md)
    /\ passed.some
    /\ passed.tok = Credential(call.md)
    /\ ClaimsValid(ClaimsOf(Credential(call.md)), now)
    /\ ~users[ClaimsOf(Credential(call.md)).id].exists
    /\ call.code = "Unauthenticated"
    /\ call.handled = 0

(* C20: a token signChallengeToken issued is no bearer credential.  A     *)
(* call to a method that is not excluded that presents the challenge token *)
(* mailed to an existing user is rejected with Unauthenticated and the     *)
(* handler is not invoked.                                                 *)
C20_ChallengeTokenNotBearer ==
    \A u \in Users :
        (/\ Protected
         /\ mail[u].sent
         /\ users[u].exists
         /\ BearerForm(call.md)
         /\ Credential(call.md) = Mailed(u)) =>
            call.code = "Unauthenticated" /\ call.handled = 0

(* C21: however concurrent tier-change Updates of one user interleave, the *)
(* free credits are granted at most once and the tier is changed from Free *)
(* to Light at most once for that user.                                    *)
C21_UpgradeAppliedOnce ==
    \A u \in Users :
        /\ usage[u].credits <= FreeCredits
        /\ usage[u].upgrades <= 1

====
